---- MODULE Spec2Model ----
(***************************************************************************)
(* A model of photinia/widgets.py: the Widget base class (constructor,     *)
(* build, setup, __call__, the process-wide registry Widget.INSTANCES      *)
(* guarded by Widget.LOCK, the parameters and their assignment), the       *)
(* constructors of Conv2D, Pool2D, GroupConv2D and Conv2DTrans with their  *)
(* shape inference, and the unrolling helpers of GRUCell and LSTMCell.     *)
(*                                                                         *)
(* Python strings are sequences of one-character strings, wrapped in a     *)
(* record that carries the Python type: Str(<<"a">>), None, IntVal.        *)
(***************************************************************************)
EXTENDS Integers, Sequences, FiniteSets, TLC

VARIABLES
    status,     \* per object: "free", "constructing", "live" (the caller
                \* holds it) or "dropped" (its constructor raised)
    name, scope, full_name, prefix, built,   \* the fields of Widget
    geom,       \* the fields of Conv2D, Pool2D and GroupConv2D
    nBuild,     \* per object: how many times _build has run
    nSetup,     \* per object: how many times _setup has run
    INSTANCES,  \* Widget.INSTANCES
    LOCK,       \* the counter of the semaphore Widget.LOCK
    pc, self,   \* per thread: where it is, and in a call on which object
    call,       \* per thread: its latest call, with a constructor's arguments
    exc, ret,   \* per thread: how its latest call ended
    attempts,   \* history: <<full name, object, outcome>> of lines 135-138
    variables,  \* the trainable variables of the graph: name -> value
    created,    \* history, per object: the variables its _build created
    out         \* per thread: what its latest unrolling of a cell computed

vars == <<status, name, scope, full_name, prefix, built, geom,
          nBuild, nSetup, INSTANCES, LOCK,
          pc, self, call, exc, ret, attempts, variables, created, out>>

\* the variables of the graph
tfVars == <<variables, created>>

objVars == <<status, name, scope, full_name, prefix, built, geom>>

----------------------------------------------------------------------------
(* Bounds *)

NWidgets == 2
NThreads == 2
MaxSetup == 1
MaxIn == 2
MaxFilter == 2
MaxStride == 2
MaxChannels == 2
MaxGroups == 2
MaxSize == 2
MaxBatch == 2
MaxLen == 2

Widgets == 1 .. NWidgets
Threads == 1 .. NThreads

----------------------------------------------------------------------------
(* Python values *)

None == [tag |-> "none"]
IntVal == [tag |-> "int"]
Str(s) == [tag |-> "str", chars |-> s]

IsStr(v) == v.tag = "str"

\* str.strip() removes leading and trailing whitespace
Whitespace == {" ", "\t", "\n"}

RECURSIVE LStrip(_)
LStrip(s) ==
    IF s # <<>> /\ Head(s) \in Whitespace THEN LStrip(Tail(s)) ELSE s

RECURSIVE RStrip(_)
RStrip(s) ==
    IF s # <<>> /\ s[Len(s)] \in Whitespace
    THEN RStrip(SubSeq(s, 1, Len(s) - 1))
    ELSE s

Strip(s) == RStrip(LStrip(s))

\* a test that never sees the slash
EndsWithSlashNever(s) == FALSE

\* str.endswith('/')
EndsWithSlash(s) == s # <<>> /\ s[Len(s)] = "/"

\* '%s' % v
Format(v) == IF v.tag = "none" THEN <<"N", "o", "n", "e">> ELSE v.chars

\* the names a caller may pass to a constructor
NameArgs ==
    { Str(<<"a">>), Str(<<"a", " ", "b">>), Str(<<" ", "a">>),
      Str(<<"a", " ">>), Str(<<>>), IntVal, None }

\* the enclosing variable scopes a build may run in
Scopes == { <<>>, <<"s">> }

----------------------------------------------------------------------------
(* Widget.__init__ *)

\* lines 87-90
NameErrorInner(n) ==
    IF ~IsStr(n) THEN "ValueError"
    ELSE IF Len(Strip(n.chars)) # Len(n.chars) \/ n.chars = <<>>
         THEN "ValueError"
         ELSE "none"

\* lines 86-90
NameError(n) == IF n # None THEN NameErrorInner(n) ELSE "none"

NoGeom == [cls |-> "Widget"]

NoCall == [op |-> "none"]

\* no unrolling yet
NoOut == [init |-> None, steps |-> << >>, states |-> << >>, outputs |-> << >>]

Init ==
    /\ status = [w \in Widgets |-> "free"]
    /\ name = [w \in Widgets |-> None]
    /\ scope = [w \in Widgets |-> <<>>]
    /\ full_name = [w \in Widgets |-> None]
    /\ prefix = [w \in Widgets |-> None]
    /\ built = [w \in Widgets |-> FALSE]
    /\ geom = [w \in Widgets |-> NoGeom]
    /\ nBuild = [w \in Widgets |-> 0]
    /\ nSetup = [w \in Widgets |-> 0]
    /\ INSTANCES = << >>
    /\ LOCK = 1
    /\ pc = [t \in Threads |-> "idle"]
    /\ self = [t \in Threads |-> 0]
    /\ call = [t \in Threads |-> NoCall]
    /\ exc = [t \in Threads |-> "none"]
    /\ ret = [t \in Threads |-> "none"]
    /\ attempts = {}
    /\ variables = << >>
    /\ created = [w \in Widgets |-> {}]
    /\ out = [t \in Threads |-> NoOut]

\* the object a constructor call allocates: the lowest unused identity
Fresh(w) == status[w] = "free" /\ \A v \in Widgets : v < w => status[v] # "free"

\* a call ends raising e: the thread is idle again with the exception recorded
Raise(t, e) ==
    /\ pc' = [pc EXCEPT ![t] = "idle"]
    /\ exc' = [exc EXCEPT ![t] = e]
    /\ ret' = [ret EXCEPT ![t] = "none"]

\* a call ends returning r ("self": the widget self[t]; "tensor": the result
\* of _setup; "none": nothing)
Return(t, r) ==
    /\ pc' = [pc EXCEPT ![t] = "idle"]
    /\ exc' = [exc EXCEPT ![t] = "none"]
    /\ ret' = [ret EXCEPT ![t] = r]

\* the status of the object when the call of thread t on it ends: an object
\* whose constructor raised is never handed to the caller, one whose
\* constructor returned is
Dropped(w) == IF status[w] = "constructing" THEN [status EXCEPT ![w] = "dropped"] ELSE status
Handed(w) == IF status[w] = "constructing" THEN [status EXCEPT ![w] = "live"] ELSE status

\* build() without the test of line 112
AlreadyBuiltNever(w) == FALSE

\* line 112
AlreadyBuilt(w) == built[w]

\* Widget.__init__(name, build), lines 86-97; with build the constructor goes
\* on into build(), whose line 112 finds the _built of line 95
WidgetInit(t, w, n, b) ==
    /\ pc[t] = "idle"
    /\ Fresh(w)
    /\ self' = [self EXCEPT ![t] = w]
    /\ IF NameError(n) # "none"
       THEN /\ Raise(t, NameError(n))
            /\ status' = [status EXCEPT ![w] = "dropped"]
            /\ UNCHANGED <<name, scope, full_name, prefix, built>>
       ELSE /\ name' = [name EXCEPT ![w] = n]
            /\ scope' = [scope EXCEPT ![w] = <<>>]
            /\ full_name' = [full_name EXCEPT ![w] = None]
            /\ prefix' = [prefix EXCEPT ![w] = None]
            /\ built' = [built EXCEPT ![w] = FALSE]
            /\ IF b
               THEN /\ pc' = [pc EXCEPT ![t] = "L123"]
                    /\ exc' = [exc EXCEPT ![t] = "none"]
                    /\ ret' = [ret EXCEPT ![t] = "none"]
                    /\ status' = [status EXCEPT ![w] = "constructing"]
               ELSE /\ Return(t, "none")
                    /\ status' = [status EXCEPT ![w] = "live"]

\* a direct subclass of Widget constructed with Widget.__init__
NewWidget(t, w, n, b) ==
    /\ WidgetInit(t, w, n, b)
    /\ call' = [call EXCEPT ![t] = [op |-> "__init__", cls |-> "Widget",
                                     name |-> n, build |-> b]]
    /\ UNCHANGED <<geom, nBuild, nSetup, INSTANCES, LOCK, attempts, tfVars, out>>

----------------------------------------------------------------------------
(* Widget.build *)

\* a caller that holds widget w calls w.build(); lines 112-113
CallBuild(t, w) ==
    /\ pc[t] = "idle"
    /\ status[w] = "live"
    /\ self' = [self EXCEPT ![t] = w]
    /\ IF AlreadyBuilt(w)
       THEN Return(t, "self")
       ELSE /\ pc' = [pc EXCEPT ![t] = "L123"]
            /\ exc' = [exc EXCEPT ![t] = "none"]
            /\ ret' = [ret EXCEPT ![t] = "none"]
    /\ call' = [call EXCEPT ![t] = [op |-> "build"]]
    /\ UNCHANGED <<objVars, nBuild, nSetup, INSTANCES, LOCK, attempts, tfVars, out>>

\* lines 124-130
FullName(s, n) ==
    IF s = <<>> THEN n
    ELSE IF EndsWithSlash(s) THEN Str(s \o n.chars)
         ELSE Str(s \o <<"/">> \o Format(n))

\* line 131
Prefix(fn) == Str(fn.chars \o <<"/">>)

\* the decimal digits of a small number
Digit(k) == <<"0", "1", "2", "3", "4", "5", "6", "7", "8", "9">>[k + 1]

\* the name scope tf.variable_scope(self._name) opens for _build at line
\* 132: the full name the first time, and the full name with the suffix _k
\* when k builds have opened it before (the graph keeps names unique)
NameScope(fn) ==
    LET k == Cardinality({v \in Widgets : nBuild[v] > 0 /\ full_name[v] = fn})
    IN  IF k = 0 THEN fn.chars ELSE fn.chars \o <<"_", Digit(k)>>

\* the name of tf.Variable(..., name=local) created in name scope ns
VarName(ns, local) == Str(ns \o <<"/">> \o local \o <<":", "0">>)

\* the names _build gives to tf.Variable: w and b (lines 362-375, 554-572,
\* 826-844, 976-994); Pool2D._build creates nothing (lines 684-685); a
\* GRUCell without biases, its default, creates six (lines 1087-1129) and an
\* LSTMCell with biases, its default, twelve (lines 1370-1456)
BuildLocals(cls) ==
    IF cls = "Pool2D" THEN {}
    ELSE IF cls = "GRUCell"
         THEN { <<"w", "z">>, <<"w", "r">>, <<"w", "h">>,
                <<"u", "z">>, <<"u", "r">>, <<"u", "h">> }
         ELSE IF cls = "LSTMCell"
              THEN { <<"w", "i">>, <<"w", "f">>, <<"w", "o">>, <<"w", "c">>,
                     <<"u", "i">>, <<"u", "f">>, <<"u", "o">>, <<"u", "c">>,
                     <<"b", "i">>, <<"b", "f">>, <<"b", "o">>, <<"b", "c">> }
              ELSE { <<"w">>, <<"b">> }

\* the variables the _build of widget w creates under full name fn
BuildNames(w, fn) == { VarName(NameScope(fn), l) : l \in BuildLocals(geom[w].cls) }

\* the value an initializer gives a new variable
InitValue == 0

\* the graph after the variables ns are created
Created(vs, ns) ==
    [k \in DOMAIN vs \cup ns |-> IF k \in DOMAIN vs THEN vs[k] ELSE InitValue]

\* lines 123-134 in enclosing variable scope s: the names, then _build()
\* and self._built = True
BuildRun(t, s) ==
    LET w == self[t]
        fn == FullName(s, name[w])
    IN  /\ pc[t] = "L123"
        /\ name[w] # None
        /\ scope' = [scope EXCEPT ![w] = s]
        /\ full_name' = [full_name EXCEPT ![w] = fn]
        /\ prefix' = [prefix EXCEPT ![w] = Prefix(fn)]
        /\ nBuild' = [nBuild EXCEPT ![w] = @ + 1]
        /\ built' = [built EXCEPT ![w] = TRUE]
        /\ variables' = Created(variables, BuildNames(w, fn))
        /\ created' = [created EXCEPT ![w] = BuildNames(w, fn)]
        /\ pc' = [pc EXCEPT ![t] = "L135"]
        /\ UNCHANGED <<status, name, geom, self, call, exc, ret,
                       nSetup, INSTANCES, LOCK, attempts, out>>

\* lines 123-132 of a widget without a name: None + '/' (line 131), or
\* tf.variable_scope(None) (line 132), is a TypeError
BuildNoName(t, s) ==
    LET w == self[t]
    IN  /\ pc[t] = "L123"
        /\ name[w] = None
        /\ scope' = [scope EXCEPT ![w] = s]
        /\ IF s = <<>>
           THEN /\ full_name' = [full_name EXCEPT ![w] = None]
                /\ UNCHANGED prefix
           ELSE /\ full_name' = [full_name EXCEPT ![w] = FullName(s, None)]
                /\ prefix' = [prefix EXCEPT ![w] = Prefix(FullName(s, None))]
        /\ Raise(t, "TypeError")
        /\ status' = Dropped(w)
        /\ UNCHANGED <<name, built, geom, self, call,
                       nBuild, nSetup, INSTANCES, LOCK, attempts, tfVars, out>>

\* a lock that never blocks
CanAcquireAlways(l) == TRUE

\* Semaphore(1).acquire() succeeds when the counter is positive
CanAcquire(l) == l > 0

\* build() without the membership test of line 136
RegisteredNever(fn) == FALSE

\* line 136
Registered(fn) == fn \in DOMAIN INSTANCES

\* lines 135-137: with Widget.LOCK, the membership test; raising leaves the
\* with block, which releases the lock
RegisterCheck(t) ==
    LET w == self[t]
    IN  /\ pc[t] = "L135"
        /\ CanAcquire(LOCK)
        /\ IF Registered(full_name[w])
           THEN /\ Raise(t, "ValueError")
                /\ UNCHANGED LOCK
                /\ status' = Dropped(w)
                /\ attempts' = attempts \cup {<<full_name[w], w, "ValueError">>}
           ELSE /\ LOCK' = LOCK - 1
                /\ pc' = [pc EXCEPT ![t] = "L138"]
                /\ UNCHANGED <<status, exc, ret, attempts>>
        /\ UNCHANGED <<name, scope, full_name, prefix, built, geom, self, call,
                       nBuild, nSetup, INSTANCES, tfVars, out>>

\* d[k] = v
SetItem(d, k, v) ==
    [x \in DOMAIN d \cup {k} |-> IF x = k THEN v ELSE d[x]]

\* lines 138-139: the insertion, the end of the with block (the lock is
\* released) and return self
RegisterInsert(t) ==
    LET w == self[t]
    IN  /\ pc[t] = "L138"
        /\ INSTANCES' = SetItem(INSTANCES, full_name[w], w)
        /\ attempts' = attempts \cup {<<full_name[w], w, "registered">>}
        /\ LOCK' = LOCK + 1
        /\ Return(t, "self")
        /\ status' = Handed(w)
        /\ UNCHANGED <<name, scope, full_name, prefix, built, geom, self, call,
                       nBuild, nSetup, tfVars, out>>

----------------------------------------------------------------------------
(* Widget.setup and Widget.__call__ *)

\* setup() without the test of line 159
NotBuiltNever(w) == FALSE

\* line 159
NotBuilt(w) == ~built[w]

\* lines 159-169: _setup runs only in a built widget
Setup(t, w, op) ==
    /\ pc[t] = "idle"
    /\ status[w] = "live"
    /\ self' = [self EXCEPT ![t] = w]
    /\ call' = [call EXCEPT ![t] = [op |-> op]]
    /\ IF NotBuilt(w)
       THEN /\ Raise(t, "RuntimeError")
            /\ UNCHANGED nSetup
       ELSE /\ nSetup[w] < MaxSetup
            /\ nSetup' = [nSetup EXCEPT ![w] = @ + 1]
            /\ Return(t, "tensor")
    /\ UNCHANGED <<objVars, nBuild, INSTANCES, LOCK, attempts, tfVars, out>>

\* w.setup(...)
CallSetup(t, w) == Setup(t, w, "setup")

\* lines 184-185: w(...)
Call(t, w) == Setup(t, w, "__call__")

----------------------------------------------------------------------------
(* Parameters: get_trainable_variables, get_parameters, set_parameters and
   get_variable *)

\* a filter that lets every variable through
StartsWithAny(s, p) == TRUE

\* str.startswith(p)
StartsWith(s, p) == Len(p) <= Len(s) /\ SubSeq(s, 1, Len(p)) = p

\* lines 209-210 of a widget that is not built: var.name.startswith(None) is
\* a TypeError as soon as the graph has a trainable variable
PrefixError(w) ==
    IF name[w] # None /\ prefix[w] = None /\ DOMAIN variables # {}
    THEN "TypeError"
    ELSE "none"

\* get_trainable_variables, lines 207-210: the names of the trainable
\* variables of the graph that start with the prefix of the widget
TrainableVariables(w) ==
    IF name[w] = None \/ prefix[w] = None
    THEN {}
    ELSE { v \in DOMAIN variables : StartsWith(v.chars, prefix[w].chars) }

\* get_parameters, lines 243-246: the values of the trainable variables
GetParameters(t, w) ==
    /\ pc[t] = "idle"
    /\ status[w] = "live"
    /\ self' = [self EXCEPT ![t] = w]
    /\ call' = [call EXCEPT ![t] = [op |-> "get_parameters"]]
    /\ IF PrefixError(w) # "none"
       THEN Raise(t, PrefixError(w))
       ELSE Return(t, "dict")
    /\ UNCHANGED <<objVars, nBuild, nSetup, INSTANCES, LOCK, attempts, tfVars, out>>

\* the test of line 264 left out
UnknownNever(n, var_dict) == FALSE

\* line 264
Unknown(n, var_dict) == n \notin var_dict

\* var.load(value), line 268
Load(vs, n, value) == [vs EXCEPT ![n] = value]

\* the loop of lines 263-268 over the items d of param_dict, in the order
\* of the dictionary: the graph it leaves and how it ends. A name that is
\* not in var_dict raises ValueError at line 266 when strict, and reaches
\* var_dict[name] at line 267, a KeyError, when not
RECURSIVE LoadAll(_, _, _, _)
LoadAll(vs, var_dict, d, strict) ==
    IF d = << >>
    THEN [vars |-> vs, exc |-> "none"]
    ELSE IF Unknown(Head(d)[1], var_dict)
         THEN [vars |-> vs, exc |-> IF strict THEN "ValueError" ELSE "KeyError"]
         ELSE LoadAll(Load(vs, Head(d)[1], Head(d)[2]), var_dict, Tail(d), strict)

\* set_parameters(param_dict, strict), lines 260-268
SetParameters(t, w, d, strict) ==
    /\ pc[t] = "idle"
    /\ status[w] = "live"
    /\ self' = [self EXCEPT ![t] = w]
    /\ call' = [call EXCEPT ![t] = [op |-> "set_parameters",
                                     param_dict |-> d, strict |-> strict]]
    /\ IF PrefixError(w) # "none"
       THEN /\ Raise(t, PrefixError(w))
            /\ UNCHANGED variables
       ELSE LET r == LoadAll(variables, TrainableVariables(w), d, strict)
            IN  /\ variables' = r.vars
                /\ IF r.exc = "none" THEN Return(t, "none") ELSE Raise(t, r.exc)
    /\ UNCHANGED <<objVars, nBuild, nSetup, INSTANCES, LOCK, attempts, created, out>>

\* get_variable(name) with a name that has no ':', lines 288-295
GetVariable(t, w, local) ==
    LET n == Str(Format(prefix[w]) \o local \o <<":", "0">>)
    IN  /\ pc[t] = "idle"
        /\ status[w] = "live"
        /\ self' = [self EXCEPT ![t] = w]
        /\ call' = [call EXCEPT ![t] = [op |-> "get_variable", name |-> local]]
        /\ Return(t, IF n \in DOMAIN variables THEN "variable" ELSE "none")
        /\ UNCHANGED <<objVars, nBuild, nSetup, INSTANCES, LOCK, attempts, tfVars, out>>

\* w.attr and w[attr], lines 297-310: the widget registered under the
\* prefix of w followed by attr, looked up with Widget.LOCK held; else the
\* tensor of that name in the graph, or None
GetAttr(t, w, attr) ==
    LET n == Str(Format(prefix[w]) \o attr)
        tensor == Str(n.chars \o <<":", "0">>)
    IN  /\ pc[t] = "idle"
        /\ status[w] = "live"
        /\ self' = [self EXCEPT ![t] = w]
        /\ call' = [call EXCEPT ![t] = [op |-> "__getattr__", name |-> attr]]
        /\ IF prefix[w] = None
           THEN /\ Raise(t, "TypeError")
                /\ UNCHANGED out
           ELSE /\ CanAcquire(LOCK)
                /\ IF n \in DOMAIN INSTANCES
                   THEN /\ Return(t, "widget")
                        /\ out' = [out EXCEPT ![t] = [widget |-> INSTANCES[n]]]
                   ELSE /\ Return(t, IF tensor \in DOMAIN variables THEN "tensor" ELSE "none")
                        /\ UNCHANGED out
        /\ UNCHANGED <<objVars, nBuild, nSetup, INSTANCES, LOCK, attempts, tfVars>>

\* the names a param_dict may hold: the variables of a widget a, one of a
\* widget b
ParamKeys ==
    { VarName(<<"a">>, <<"w">>), VarName(<<"a">>, <<"b">>), VarName(<<"b">>, <<"w">>) }

\* the param_dict arguments a caller may pass, as their items <<name,
\* value>> in order: one name, or two different names
DictArgs ==
    { <<e>> : e \in ParamKeys \X {1} }
    \cup { p \in (ParamKeys \X {1}) \X (ParamKeys \X {2}) : p[1][1] # p[2][1] }

----------------------------------------------------------------------------
(* Conv2D, Pool2D and GroupConv2D: the constructors *)

\* a tuple, a list, or a value that is neither (an int)
TupleOf(e) == [tag |-> "tuple", elems |-> e]
ListOf(e) == [tag |-> "list", elems |-> e]
IntSize == [tag |-> "int", elems |-> <<>>]

\* the input_size arguments a caller may pass
SizeArgs ==
    { TupleOf(<<h, w, c>>) : h \in 1 .. MaxIn, w \in 1 .. MaxIn, c \in 1 .. MaxChannels }
    \cup { ListOf(<<1, 2, 1>>), TupleOf(<<2, 2>>), TupleOf(<<2, 2, 1, 1>>), IntSize }

\* the padding arguments a caller may pass
PaddingArgs == { "SAME", "VALID", "same" }

\* the pool_type arguments a caller may pass
PoolTypeArgs ==
    { <<"m", "a", "x">>, <<"M", "A", "X">>, <<"A", "v", "g">>,
      <<"m", "e", "a", "n">>, <<"m", "i", "n">> }

Uppers == <<"A", "B", "C", "D", "E", "F", "G", "H", "I", "J", "K", "L", "M",
            "N", "O", "P", "Q", "R", "S", "T", "U", "V", "W", "X", "Y", "Z">>
Lowers == <<"a", "b", "c", "d", "e", "f", "g", "h", "i", "j", "k", "l", "m",
            "n", "o", "p", "q", "r", "s", "t", "u", "v", "w", "x", "y", "z">>

\* str.lower(), one character
LowerChar(c) ==
    IF \E i \in 1 .. Len(Uppers) : Uppers[i] = c
    THEN Lowers[CHOOSE i \in 1 .. Len(Uppers) : Uppers[i] = c]
    ELSE c

\* a comparison that keeps the letter case
LowerKeepsCase(s) == s

\* str.lower()
Lower(s) == [i \in 1 .. Len(s) |-> LowerChar(s[i])]

\* math.floor(a / b) of integers, b > 0
FloorDiv(a, b) == a \div b

\* rounding the quotient down instead of up
CeilDivDown(a, b) == a \div b

\* math.ceil(a / b) of integers, b > 0
CeilDiv(a, b) == -((-a) \div b)

\* lines 484-489, 643-648 and 752-757, one dimension
OutputSize(padding, input, filter, stride) ==
    IF padding = "SAME"
    THEN CeilDiv(input, stride)
    ELSE CeilDiv(input - filter + 1, stride)

\* lines 490 and 758; line 649 with the input channels
FlatSize(oh, ow, channels) == oh * ow * channels

\* lines 469 and 735
IsShape(size) == size.tag \in {"tuple", "list"} /\ Len(size.elems) = 3

\* line 635
KnownPoolTypes == { <<"m", "a", "x">>, <<"a", "v", "g">> }

\* the fields a constructor sets before Widget.__init__; a field the class
\* does not have is 0 or empty
Geometry(cls, size, oc, groups, fh, fw, sh, sw, padding, pool) ==
    LET ih == size.elems[1]
        iw == size.elems[2]
        ic == size.elems[3]
        oh == OutputSize(padding, ih, fh, sh)
        ow == OutputSize(padding, iw, fw, sw)
    IN  [cls |-> cls,
         input_height |-> ih, input_width |-> iw, input_channels |-> ic,
         output_channels |-> oc, num_groups |-> groups,
         filter_height |-> fh, filter_width |-> fw,
         stride_height |-> sh, stride_width |-> sw,
         padding |-> padding, pool_type |-> pool,
         output_height |-> oh, output_width |-> ow,
         flat_size |-> FlatSize(oh, ow, IF cls = "Pool2D" THEN ic ELSE oc)]

\* a constructor that raises e only after the widget has been marked built
InitRaiseBuilt(t, w, e) ==
    /\ pc[t] = "idle"
    /\ Fresh(w)
    /\ self' = [self EXCEPT ![t] = w]
    /\ Raise(t, e)
    /\ status' = [status EXCEPT ![w] = "dropped"]
    /\ built' = [built EXCEPT ![w] = TRUE]
    /\ UNCHANGED <<name, scope, full_name, prefix, geom>>

\* a constructor raises e before it reaches Widget.__init__
InitRaise(t, w, e) ==
    /\ pc[t] = "idle"
    /\ Fresh(w)
    /\ self' = [self EXCEPT ![t] = w]
    /\ Raise(t, e)
    /\ status' = [status EXCEPT ![w] = "dropped"]
    /\ UNCHANGED <<name, scope, full_name, prefix, built, geom>>

\* the arguments of a constructor call, as the call is recorded
ShapeCall(cls, n, size, padding, pool) ==
    [op |-> "__init__", cls |-> cls, name |-> n, build |-> TRUE,
     input_size |-> size, padding |-> padding, pool_type |-> pool]

\* Conv2D.__init__, lines 469-491
NewConv2D(t, w, n, size, oc, fh, fw, sh, sw, padding) ==
    /\ call' = [call EXCEPT ![t] = ShapeCall("Conv2D", n, size, padding, <<>>)]
    /\ IF ~IsShape(size)
       THEN InitRaise(t, w, "ValueError")
       ELSE /\ geom' = [geom EXCEPT ![w] =
                   Geometry("Conv2D", size, oc, 0, fh, fw, sh, sw, padding, <<>>)]
            /\ WidgetInit(t, w, n, TRUE)
    /\ UNCHANGED <<nBuild, nSetup, INSTANCES, LOCK, attempts, tfVars, out>>

\* what subscripting input_size up to [2] raises, lines 640-642
SubscriptError(size) ==
    IF size.tag \notin {"tuple", "list"} THEN "TypeError"
    ELSE IF Len(size.elems) < 3 THEN "IndexError"
         ELSE "none"

\* Pool2D.__init__, lines 628-650
NewPool2D(t, w, n, size, fh, fw, sh, sw, padding, pool) ==
    /\ call' = [call EXCEPT ![t] = ShapeCall("Pool2D", n, size, padding, pool)]
    /\ IF Lower(pool) \notin KnownPoolTypes
       THEN InitRaise(t, w, "ValueError")
       ELSE IF SubscriptError(size) # "none"
            THEN InitRaise(t, w, SubscriptError(size))
            ELSE /\ geom' = [geom EXCEPT ![w] =
                        Geometry("Pool2D", size, 0, 0, fh, fw, sh, sw, padding, Lower(pool))]
                 /\ WidgetInit(t, w, n, TRUE)
    /\ UNCHANGED <<nBuild, nSetup, INSTANCES, LOCK, attempts, tfVars, out>>

\* the pooling types the docstring of Pool2D.__init__ lists, line 625
DocumentedPoolTypes == { <<"m", "a", "x">>, <<"m", "e", "a", "n">> }

\* Pool2D._setup, lines 697-714: the pooling operation applied to x; with
\* any other stored pool_type the method falls off its end and returns None
Pool2DSetup(pool) ==
    IF pool = <<"m", "a", "x">> THEN "max_pool"
    ELSE IF pool = <<"a", "v", "g">> THEN "avg_pool"
         ELSE "None"

\* GroupConv2D.__init__, lines 735-759
NewGroupConv2D(t, w, n, size, oc, groups, fh, fw, sh, sw, padding) ==
    /\ call' = [call EXCEPT ![t] = ShapeCall("GroupConv2D", n, size, padding, <<>>)]
    /\ IF ~IsShape(size)
       THEN InitRaise(t, w, "ValueError")
       ELSE /\ geom' = [geom EXCEPT ![w] =
                   Geometry("GroupConv2D", size, oc, groups, fh, fw, sh, sw, padding, <<>>)]
            /\ WidgetInit(t, w, n, TRUE)
    /\ UNCHANGED <<nBuild, nSetup, INSTANCES, LOCK, attempts, tfVars, out>>

\* GroupConv2D._build, lines 826-833: the shape of the weight, whose third
\* entry is the input-channel depth of one group
GroupWeightShape(g) ==
    <<g.filter_height, g.filter_width,
      FloorDiv(g.input_channels, g.num_groups), g.output_channels>>

\* tf.split(value, num_or_size_splits=k, axis=3) of a tensor of n channels,
\* lines 855-856: k parts of n / k channels; no part when k does not
\* divide n, which tf.split refuses with a ValueError
SplitSizes(n, k) ==
    IF n % k = 0 THEN [i \in 1 .. k |-> n \div k] ELSE << >>

\* the fields Conv2DTrans.__init__ sets before Widget.__init__, lines 905-920
TransGeometry(size, ic, fh, fw, sh, sw) ==
    LET oh == size.elems[1]
        ow == size.elems[2]
        oc == size.elems[3]
        ih == CeilDiv(oh, sh)
        iw == CeilDiv(ow, sw)
    IN  [cls |-> "Conv2DTrans",
         output_height |-> oh, output_width |-> ow, output_channels |-> oc,
         input_channels |-> ic,
         filter_height |-> fh, filter_width |-> fw,
         stride_height |-> sh, stride_width |-> sw,
         input_height |-> ih, input_width |-> iw,
         flat_size |-> FlatSize(ih, iw, ic)]

\* Conv2DTrans.__init__, lines 903-921
NewConv2DTrans(t, w, n, size, ic, fh, fw, sh, sw) ==
    /\ call' = [call EXCEPT ![t] = [op |-> "__init__", cls |-> "Conv2DTrans",
                                     name |-> n, build |-> TRUE,
                                     output_size |-> size]]
    /\ IF ~IsShape(size)
       THEN InitRaise(t, w, "ValueError")
       ELSE /\ geom' = [geom EXCEPT ![w] = TransGeometry(size, ic, fh, fw, sh, sw)]
            /\ WidgetInit(t, w, n, TRUE)
    /\ UNCHANGED <<nBuild, nSetup, INSTANCES, LOCK, attempts, tfVars, out>>

\* a tensor of a known static shape (batch, height, width, channels)
Image(b, h, w, c) == [tag |-> "tensor", shape |-> <<b, h, w, c>>]

\* the inputs setup() of a Conv2DTrans of geometry g is given: an image of
\* the declared input size and one that is a row taller
TransInputArgs(g) ==
    { Image(b, h, g.input_width, g.input_channels) :
          b \in 1 .. MaxBatch, h \in {g.input_height, g.input_height + 1} }

\* Conv2DTrans._setup, lines 1014-1021: output_shape from tf.shape(x) and
\* the strides
TransOutputShape(g, x) ==
    LET input_shape == x.shape
        batch_size == input_shape[1]
        input_height == input_shape[2]
        input_width == input_shape[3]
    IN  <<batch_size, input_height * g.stride_height,
          input_width * g.stride_width, g.output_channels>>

\* Conv2DTrans._setup, lines 1022-1030: conv2d_transpose returns a tensor
\* of output_shape, and adding the bias keeps the shape
Conv2DTransSetup(g, x) == [tag |-> "tensor", shape |-> TransOutputShape(g, x)]

\* w.setup(x) of a Conv2DTrans, lines 159-169 and 1014-1030
SetupConv2DTrans(t, w, x) ==
    /\ pc[t] = "idle"
    /\ status[w] = "live"
    /\ self' = [self EXCEPT ![t] = w]
    /\ call' = [call EXCEPT ![t] = [op |-> "setup", cls |-> "Conv2DTrans", x |-> x]]
    /\ IF NotBuilt(w)
       THEN /\ Raise(t, "RuntimeError")
            /\ UNCHANGED <<nSetup, out>>
       ELSE /\ nSetup[w] < MaxSetup
            /\ nSetup' = [nSetup EXCEPT ![w] = @ + 1]
            /\ out' = [out EXCEPT ![t] = Conv2DTransSetup(geom[w], x)]
            /\ Return(t, "tensor")
    /\ UNCHANGED <<objVars, nBuild, INSTANCES, LOCK, attempts, tfVars>>

----------------------------------------------------------------------------
(* GRUCell and LSTMCell: the constructors and the unrolling helpers.  A
   tensor is a record that says which operation made it from which
   tensors; a Python tuple of tensors is TupleOf(...). *)

\* the fields a cell constructor sets before Widget.__init__, lines
\* 1053-1059 and 1340-1346
CellGeometry(cls, input_size, state_size) ==
    [cls |-> cls, input_size |-> input_size, state_size |-> state_size]

\* GRUCell.__init__ and LSTMCell.__init__, lines 1053-1060 and 1340-1347
NewCell(t, w, cls, n, input_size, state_size) ==
    /\ call' = [call EXCEPT ![t] = [op |-> "__init__", cls |-> cls,
                                     name |-> n, build |-> TRUE]]
    /\ geom' = [geom EXCEPT ![w] = CellGeometry(cls, input_size, state_size)]
    /\ WidgetInit(t, w, n, TRUE)
    /\ UNCHANGED <<nBuild, nSetup, INSTANCES, LOCK, attempts, tfVars, out>>

\* a tensor the caller passes: batch rows of width columns
Given(what, batch, width) ==
    [tag |-> "tensor", op |-> what, batch |-> batch, width |-> width]

\* tf.zeros(shape=(batch, width), name=what)
Zeros(batch, width, what) ==
    [tag |-> "tensor", op |-> "zeros", name |-> what, batch |-> batch, width |-> width]

\* tf.shape(x)[0] of a tensor of rank 2
BatchSize(x) == x.batch

\* tf.shape(x) of a value that is not a tensor: None cannot be converted
ShapeError(x) == IF x = None THEN "ValueError" ELSE "none"

\* operations.transpose_sequence(seq): the elements of a sequence tensor
\* of the given length, in the order of the sequence
Elements(seq) ==
    [i \in 1 .. seq.length |->
        [tag |-> "tensor", op |-> "elem", index |-> i,
         batch |-> seq.batch, width |-> seq.width]]

\* operations.setup(x, widgets): x set up through the widgets in turn; x
\* itself without widgets
OperationsSetup(x, widgets) ==
    IF widgets = None THEN x
    ELSE [tag |-> "tensor", op |-> "widgets", widgets |-> widgets, x |-> x,
          batch |-> x.batch]

\* GRUCell.setup(x, h_), lines 1189-1218: the new state
GRUSetup(x, h_) ==
    [tag |-> "tensor", op |-> "GRUCell", x |-> x, h_ |-> h_, batch |-> x.batch]

\* LSTMCell.setup(x, prev_cell_state, prev_state), lines 1506-1557: the new
\* cell state and the new state
LSTMSetup(x, c_, h_) ==
    TupleOf(<< [tag |-> "tensor", op |-> "LSTMCell.cell_state",
                x |-> x, c_ |-> c_, h_ |-> h_, batch |-> x.batch],
               [tag |-> "tensor", op |-> "LSTMCell.state",
                x |-> x, c_ |-> c_, h_ |-> h_, batch |-> x.batch] >>)

\* tf.scan requires what fn returns to have the structure of the
\* initializer: a tensor for a tensor, a tuple of as many for a tuple
SameStructure(a, b) ==
    /\ a.tag = b.tag
    /\ a.tag = "tuple" => Len(a.elems) = Len(b.elems)

\* fn of setup_sequence, lines 1242-1249
SequenceFn(acc, elem, input_widgets, output_widgets) ==
    LET cell_input == OperationsSetup(elem, input_widgets)
        state == GRUSetup(cell_input, acc)
    IN  IF output_widgets = None
        THEN state
        ELSE TupleOf(<<state, OperationsSetup(state, output_widgets)>>)

\* tf.scan(fn, elems, initializer), lines 1251-1255: fn is applied to the
\* elements in order, each time to what it returned the time before, the
\* first time to the initializer; a result that has not the structure of
\* the initializer is a ValueError. done: the applications so far
RECURSIVE ScanSequence(_, _, _, _, _, _)
ScanSequence(acc, init, elems, input_widgets, output_widgets, done) ==
    IF elems = << >>
    THEN [exc |-> "none", steps |-> done]
    ELSE LET r == SequenceFn(acc, Head(elems), input_widgets, output_widgets)
             step == [acc |-> acc, elem |-> Head(elems), result |-> r]
         IN  IF ~SameStructure(init, r)
             THEN [exc |-> "ValueError", steps |-> Append(done, step)]
             ELSE ScanSequence(r, init, Tail(elems), input_widgets,
                               output_widgets, Append(done, step))

\* component i of every result of a scan
Component(steps, i) == [k \in DOMAIN steps |-> steps[k].result.elems[i]]

\* GRUCell.setup_sequence(seq, input_widgets, output_widgets, init_state),
\* lines 1233-1263; fn calls self.setup, which needs a built cell
GRUSetupSequence(t, w, seq, input_widgets, output_widgets, init_state) ==
    LET init == IF init_state = None
                THEN Zeros(seq.batch, geom[w].state_size, "init_state")
                ELSE init_state
        r == ScanSequence(init, init, Elements(seq), input_widgets,
                          output_widgets, << >>)
    IN  /\ pc[t] = "idle"
        /\ status[w] = "live"
        /\ geom[w].cls = "GRUCell"
        /\ self' = [self EXCEPT ![t] = w]
        /\ call' = [call EXCEPT ![t] =
               [op |-> "setup_sequence", seq |-> seq,
                input_widgets |-> input_widgets,
                output_widgets |-> output_widgets, init_state |-> init_state]]
        /\ IF NotBuilt(w)
           THEN /\ Raise(t, "RuntimeError")
                /\ out' = [out EXCEPT ![t] = NoOut]
                /\ UNCHANGED nSetup
           ELSE /\ nSetup[w] < MaxSetup
                /\ nSetup' = [nSetup EXCEPT ![w] = @ + 1]
                /\ IF r.exc # "none"
                   THEN /\ Raise(t, r.exc)
                        /\ out' = [out EXCEPT ![t] =
                               [init |-> init, steps |-> r.steps,
                                states |-> << >>, outputs |-> << >>]]
                   ELSE /\ Return(t, "tensor")
                        /\ out' = [out EXCEPT ![t] =
                               [init |-> init, steps |-> r.steps,
                                states |-> IF output_widgets = None
                                           THEN [k \in DOMAIN r.steps |-> r.steps[k].result]
                                           ELSE Component(r.steps, 1),
                                outputs |-> IF output_widgets = None
                                            THEN << >>
                                            ELSE Component(r.steps, 2)]]
        /\ UNCHANGED <<objVars, nBuild, INSTANCES, LOCK, attempts, tfVars>>

\* a test that fails when either of the two is missing
EitherNone(init_state, init_input) == init_state = None \/ init_input = None

\* lines 1280 and 1630
BothNone(init_state, init_input) == init_state = None /\ init_input = None

\* fn_recursive of GRUCell.setup_recursive, lines 1298-1303
GRURecursiveFn(acc, input_widgets, output_widgets) ==
    LET prev_state == acc.elems[1]
        prev_output == acc.elems[2]
        cell_input == OperationsSetup(prev_output, input_widgets)
        state == GRUSetup(cell_input, prev_state)
        output == OperationsSetup(state, output_widgets)
    IN  TupleOf(<<state, output>>)

\* fn_recursive of LSTMCell.setup_recursive, lines 1653-1658
LSTMRecursiveFn(acc, input_widgets, output_widgets) ==
    LET prev_cell_state == acc.elems[1]
        prev_state == acc.elems[2]
        prev_output == acc.elems[3]
        cell_input == OperationsSetup(prev_output, input_widgets)
        both == LSTMSetup(cell_input, prev_cell_state, prev_state)
        output == OperationsSetup(both.elems[2], output_widgets)
    IN  TupleOf(<<both.elems[1], both.elems[2], output>>)

\* fn_recursive of the cell of class cls
RecursiveFn(cls, acc, input_widgets, output_widgets) ==
    IF cls = "GRUCell"
    THEN GRURecursiveFn(acc, input_widgets, output_widgets)
    ELSE LSTMRecursiveFn(acc, input_widgets, output_widgets)

\* tf.scan(fn_recursive, tf.zeros((max_len,)), initializer), lines 1305-1309
\* and 1660-1664: max_len applications, each to the result of the one before
RECURSIVE ScanRecursive(_, _, _, _, _, _)
ScanRecursive(cls, acc, max_len, input_widgets, output_widgets, done) ==
    IF max_len = 0
    THEN done
    ELSE LET r == RecursiveFn(cls, acc, input_widgets, output_widgets)
         IN  ScanRecursive(cls, r, max_len - 1, input_widgets, output_widgets,
                           Append(done, [acc |-> acc, result |-> r]))

\* the end of an unrolling that reached tf.scan with the initializer init:
\* lines 1305-1313 (states: component 1) and 1660-1669 (states: component 2)
Unroll(t, w, init, max_len, input_widgets, output_widgets) ==
    LET cls == geom[w].cls
        steps == ScanRecursive(cls, init, max_len, input_widgets, output_widgets, << >>)
    IN  IF NotBuilt(w)
        THEN /\ Raise(t, "RuntimeError")
             /\ out' = [out EXCEPT ![t] = NoOut]
             /\ UNCHANGED nSetup
        ELSE /\ nSetup[w] < MaxSetup
             /\ nSetup' = [nSetup EXCEPT ![w] = @ + 1]
             /\ Return(t, "tensor")
             /\ out' = [out EXCEPT ![t] =
                    [init |-> init, steps |-> steps,
                     states |-> Component(steps, IF cls = "GRUCell" THEN 1 ELSE 2),
                     outputs |-> Component(steps, IF cls = "GRUCell" THEN 2 ELSE 3)]]

\* GRUCell.setup_recursive(max_len, input_widgets, output_widgets,
\* init_state, init_input), lines 1280-1313
GRUSetupRecursive(t, w, max_len, input_widgets, output_widgets, init_state, init_input) ==
    /\ pc[t] = "idle"
    /\ status[w] = "live"
    /\ geom[w].cls = "GRUCell"
    /\ self' = [self EXCEPT ![t] = w]
    /\ call' = [call EXCEPT ![t] =
           [op |-> "setup_recursive", max_len |-> max_len,
            input_widgets |-> input_widgets, output_widgets |-> output_widgets,
            init_cell_state |-> None,
            init_state |-> init_state, init_input |-> init_input]]
    /\ IF BothNone(init_state, init_input)
       THEN /\ Raise(t, "ValueError")
            /\ out' = [out EXCEPT ![t] = NoOut]
            /\ UNCHANGED nSetup
       ELSE LET state0 == IF init_state = None
                          THEN Zeros(BatchSize(init_input), geom[w].state_size, "init_state")
                          ELSE init_state
                input0 == IF init_input = None
                          THEN Zeros(BatchSize(state0), geom[w].input_size, "init_input")
                          ELSE init_input
            IN  Unroll(t, w, TupleOf(<<state0, input0>>), max_len,
                       input_widgets, output_widgets)
    /\ UNCHANGED <<objVars, nBuild, INSTANCES, LOCK, attempts, tfVars>>

\* LSTMCell.setup_recursive(max_len, input_widgets, output_widgets,
\* init_cell_state, init_state, init_input), lines 1630-1669; line 1633
\* takes the shape of init_input before line 1646 looks whether it is None
LSTMSetupRecursive(t, w, max_len, input_widgets, output_widgets, init_cell_state, init_state, init_input) ==
    /\ pc[t] = "idle"
    /\ status[w] = "live"
    /\ geom[w].cls = "LSTMCell"
    /\ self' = [self EXCEPT ![t] = w]
    /\ call' = [call EXCEPT ![t] =
           [op |-> "setup_recursive", max_len |-> max_len,
            input_widgets |-> input_widgets, output_widgets |-> output_widgets,
            init_cell_state |-> init_cell_state,
            init_state |-> init_state, init_input |-> init_input]]
    /\ IF BothNone(init_state, init_input)
       THEN /\ Raise(t, "ValueError")
            /\ out' = [out EXCEPT ![t] = NoOut]
            /\ UNCHANGED nSetup
       ELSE IF ShapeError(init_input) # "none"
            THEN /\ Raise(t, ShapeError(init_input))
                 /\ out' = [out EXCEPT ![t] = NoOut]
                 /\ UNCHANGED nSetup
            ELSE LET batch_size == BatchSize(init_input)
                     cell0 == IF init_cell_state = None
                              THEN Zeros(batch_size, geom[w].state_size, "init_cell_state")
                              ELSE init_cell_state
                     state0 == IF init_state = None
                               THEN Zeros(batch_size, geom[w].state_size, "init_state")
                               ELSE init_state
                     input0 == IF init_input = None
                               THEN Zeros(batch_size, geom[w].input_size, "init_input")
                               ELSE init_input
                 IN  Unroll(t, w, TupleOf(<<cell0, state0, input0>>), max_len,
                            input_widgets, output_widgets)
    /\ UNCHANGED <<objVars, nBuild, INSTANCES, LOCK, attempts, tfVars>>

----------------------------------------------------------------------------
(* Specifications *)

\* the thread of the single-threaded specifications
MainThread == CHOOSE t \in Threads : \A u \in Threads : t <= u

\* the name the threads of SpecThreads give their widgets
ThreadNameArgs == { Str(<<"a">>) }

\* one thread constructs, builds and sets up widgets
Next ==
    \/ \E w \in Widgets, n \in NameArgs, b \in BOOLEAN :
           NewWidget(MainThread, w, n, b)
    \/ \E w \in Widgets : CallBuild(MainThread, w)
    \/ \E s \in Scopes : BuildRun(MainThread, s)
    \/ \E s \in Scopes : BuildNoName(MainThread, s)
    \/ RegisterCheck(MainThread)
    \/ RegisterInsert(MainThread)
    \/ \E w \in Widgets : CallSetup(MainThread, w)
    \/ \E w \in Widgets : Call(MainThread, w)

Spec == Init /\ [][Next]_vars

\* no thread is in a call on widget w
Quiet(w) == \A u \in Threads : pc[u] = "idle" \/ self[u] # w

\* several threads at the same time construct and build widgets, no two of
\* them in a call on the same widget
NextThreads ==
    \E t \in Threads :
        \/ \E w \in Widgets, n \in ThreadNameArgs, b \in BOOLEAN :
               NewWidget(t, w, n, b)
        \/ \E w \in Widgets : Quiet(w) /\ CallBuild(t, w)
        \/ \E s \in Scopes : BuildRun(t, s)
        \/ RegisterCheck(t)
        \/ RegisterInsert(t)

SpecThreads == Init /\ [][NextThreads]_vars

\* the name of the widgets of SpecShared, the variable scopes a thread
\* builds in and the attributes looked up: a widget a built in the scope
\* of a widget a is the attribute a of that widget
SharedNameArgs == { Str(<<"a">>) }
SharedScopes == { <<>>, <<"a">> }
AttrArgs == { <<"a">>, <<"w">> }

\* the last call of thread t, if it has made one, was a constructor
FirstUse(t) == call[t].op \in {"none", "__init__"}

\* the main thread constructs widgets, and several threads at the same
\* time call build() or look up an attribute, the other threads once; a
\* widget its constructor has returned is shared by all of them
NextShared ==
    \E t \in Threads :
        \/ /\ t = MainThread
           /\ \E w \in Widgets, n \in SharedNameArgs, b \in BOOLEAN :
                  NewWidget(t, w, n, b)
        \/ /\ FirstUse(t)
           /\ \E w \in Widgets : CallBuild(t, w)
        \/ \E s \in SharedScopes : BuildRun(t, s)
        \/ RegisterCheck(t)
        \/ RegisterInsert(t)
        \/ /\ FirstUse(t)
           /\ \E w \in Widgets, attr \in AttrArgs : GetAttr(t, w, attr)

SpecShared == Init /\ [][NextShared]_vars

\* the name of the widget of SpecShape
ShapeNameArgs == { Str(<<"a">>) }

\* no constructor has been called yet
NoCallYet == call[MainThread] = NoCall

\* one thread constructs one convolution or pooling widget
NextShape ==
    \/ /\ NoCallYet
       /\ \E w \in Widgets, n \in ShapeNameArgs, size \in SizeArgs,
             oc \in 1 .. MaxChannels,
             fh \in 1 .. MaxFilter, fw \in 1 .. MaxFilter,
             sh \in 1 .. MaxStride, sw \in 1 .. MaxStride,
             padding \in PaddingArgs :
               NewConv2D(MainThread, w, n, size, oc, fh, fw, sh, sw, padding)
    \/ /\ NoCallYet
       /\ \E w \in Widgets, n \in ShapeNameArgs, size \in SizeArgs,
             fh \in 1 .. MaxFilter, fw \in 1 .. MaxFilter,
             sh \in 1 .. MaxStride, sw \in 1 .. MaxStride,
             padding \in PaddingArgs, pool \in PoolTypeArgs :
               NewPool2D(MainThread, w, n, size, fh, fw, sh, sw, padding, pool)
    \/ /\ NoCallYet
       /\ \E w \in Widgets, n \in ShapeNameArgs, size \in SizeArgs,
             oc \in 1 .. MaxChannels, groups \in 1 .. MaxGroups,
             fh \in 1 .. MaxFilter, fw \in 1 .. MaxFilter,
             sh \in 1 .. MaxStride, sw \in 1 .. MaxStride,
             padding \in PaddingArgs :
               NewGroupConv2D(MainThread, w, n, size, oc, groups, fh, fw, sh, sw, padding)
    \/ /\ NoCallYet
       /\ \E w \in Widgets, n \in ShapeNameArgs, size \in SizeArgs,
             ic \in 1 .. MaxChannels,
             fh \in 1 .. MaxFilter, fw \in 1 .. MaxFilter,
             sh \in 1 .. MaxStride, sw \in 1 .. MaxStride :
               NewConv2DTrans(MainThread, w, n, size, ic, fh, fw, sh, sw)
    \/ \E w \in Widgets :
           /\ geom[w].cls = "Conv2DTrans"
           /\ \E x \in TransInputArgs(geom[w]) : SetupConv2DTrans(MainThread, w, x)
    \/ \E s \in Scopes : BuildRun(MainThread, s)
    \/ RegisterCheck(MainThread)
    \/ RegisterInsert(MainThread)

SpecShape == Init /\ [][NextShape]_vars

\* the arguments of SpecValidation: of each kind one that is accepted and
\* some that are rejected
ValidationNameArgs == { Str(<<"a">>), Str(<<" ", "a">>), Str(<<>>) }
ValidationSizeArgs == { TupleOf(<<1, 1, 1>>), TupleOf(<<2, 2>>), IntSize }
ValidationPoolArgs == { <<"m", "a", "x">>, <<"m", "i", "n">> }

\* one thread constructs widgets of every class, one after the other, with
\* good and bad arguments
NextValidation ==
    \/ \E w \in Widgets, n \in ValidationNameArgs :
           NewWidget(MainThread, w, n, TRUE)
    \/ \E w \in Widgets, n \in ValidationNameArgs, size \in ValidationSizeArgs :
           NewConv2D(MainThread, w, n, size, 1, 1, 1, 1, 1, "SAME")
    \/ \E w \in Widgets, n \in ValidationNameArgs, size \in ValidationSizeArgs,
          pool \in ValidationPoolArgs :
           NewPool2D(MainThread, w, n, size, 1, 1, 1, 1, "SAME", pool)
    \/ \E w \in Widgets, n \in ValidationNameArgs, size \in ValidationSizeArgs :
           NewGroupConv2D(MainThread, w, n, size, 1, 1, 1, 1, 1, 1, "SAME")
    \/ \E w \in Widgets, n \in ValidationNameArgs, size \in ValidationSizeArgs :
           NewConv2DTrans(MainThread, w, n, size, 1, 1, 1, 1, 1)
    \/ \E s \in Scopes : BuildRun(MainThread, s)
    \/ RegisterCheck(MainThread)
    \/ RegisterInsert(MainThread)

SpecValidation == Init /\ [][NextValidation]_vars

\* the names and the enclosing scope of the widgets of SpecParams
ParamNameArgs == { Str(<<"a">>), Str(<<"b">>) }
ParamScopes == { << >> }

\* one thread constructs widgets with parameters, sets them up, and reads,
\* looks up and assigns their parameters
NextParams ==
    \/ \E w \in Widgets, n \in ParamNameArgs : NewWidget(MainThread, w, n, TRUE)
    \/ \E s \in ParamScopes : BuildRun(MainThread, s)
    \/ RegisterCheck(MainThread)
    \/ RegisterInsert(MainThread)
    \/ \E w \in Widgets : CallSetup(MainThread, w)
    \/ \E w \in Widgets : GetParameters(MainThread, w)
    \/ \E w \in Widgets, l \in BuildLocals("Widget") : GetVariable(MainThread, w, l)
    \/ \E w \in Widgets, d \in DictArgs, strict \in BOOLEAN :
           SetParameters(MainThread, w, d, strict)

SpecParams == Init /\ [][NextParams]_vars

\* the arguments of SpecCells: the name of the cell, the lists of widgets
\* before and after it, and the tensors a caller may pass for a state (or
\* cell state) and for an input of a cell with the given sizes
CellNameArgs == { Str(<<"a">>) }
InputWidgetArgs == { None, ListOf(<<"in">>) }
OutputWidgetArgs == { None, ListOf(<<"out">>) }
StateArgs(w, what) ==
    { None } \cup { Given(what, b, geom[w].state_size) : b \in 1 .. MaxBatch }
InputArgs(w) ==
    { None } \cup { Given("init_input", b, geom[w].input_size) : b \in 1 .. MaxBatch }
SeqArgs(w) ==
    { [tag |-> "tensor", op |-> "seq", length |-> n, batch |-> b,
       width |-> geom[w].input_size] : n \in 1 .. MaxLen, b \in 1 .. MaxBatch }

\* the caller holds widget w, a cell of class cls, and has not called it yet
IsCell(w, cls) ==
    /\ call[MainThread].op = "__init__"
    /\ status[w] = "live"
    /\ geom[w].cls = cls

\* the tensors a caller passes to one call are of one batch
SameBatch(x, y) == (x # None /\ y # None) => x.batch = y.batch

\* one thread constructs one recurrent cell and unrolls it once
NextCells ==
    \/ /\ NoCallYet
       /\ \E w \in Widgets, cls \in {"GRUCell", "LSTMCell"}, n \in CellNameArgs,
             input_size \in 1 .. MaxSize, state_size \in 1 .. MaxSize :
               NewCell(MainThread, w, cls, n, input_size, state_size)
    \/ \E s \in Scopes : BuildRun(MainThread, s)
    \/ RegisterCheck(MainThread)
    \/ RegisterInsert(MainThread)
    \/ \E w \in Widgets :
          /\ IsCell(w, "GRUCell")
          /\ \E seq \in SeqArgs(w), iw \in InputWidgetArgs, ow \in OutputWidgetArgs,
                init_state \in StateArgs(w, "init_state") :
                  /\ init_state # None => init_state.batch = seq.batch
                  /\ GRUSetupSequence(MainThread, w, seq, iw, ow, init_state)
    \/ \E w \in Widgets, max_len \in 1 .. MaxLen :
          /\ IsCell(w, "GRUCell")
          /\ \E iw \in InputWidgetArgs, ow \in OutputWidgetArgs,
                init_state \in StateArgs(w, "init_state"), init_input \in InputArgs(w) :
                  /\ SameBatch(init_state, init_input)
                  /\ GRUSetupRecursive(MainThread, w, max_len, iw, ow,
                                       init_state, init_input)
    \/ \E w \in Widgets, max_len \in 1 .. MaxLen :
          /\ IsCell(w, "LSTMCell")
          /\ \E iw \in InputWidgetArgs, ow \in OutputWidgetArgs,
                init_cell_state \in StateArgs(w, "init_cell_state"),
                init_state \in StateArgs(w, "init_state"), init_input \in InputArgs(w) :
                  /\ SameBatch(init_cell_state, init_state)
                  /\ SameBatch(init_state, init_input)
                  /\ SameBatch(init_cell_state, init_input)
                  /\ LSTMSetupRecursive(MainThread, w, max_len, iw, ow,
                                        init_cell_state, init_state, init_input)

SpecCells == Init /\ [][NextCells]_vars

\* the enclosing scopes of SpecScopes: the scopes of Scopes and one whose
\* name ends with "/", as the scope Widget.setup opens at line 168 from a
\* prefix does; the names of its widgets
SlashScopes == Scopes \cup { <<"s", "/">> }
ScopeNameArgs == { Str(<<"a">>), Str(<<"b">>) }

\* one thread constructs widgets in several enclosing scopes
NextScopes ==
    \/ \E w \in Widgets, n \in ScopeNameArgs, b \in BOOLEAN :
           NewWidget(MainThread, w, n, b)
    \/ \E w \in Widgets : CallBuild(MainThread, w)
    \/ \E s \in SlashScopes : BuildRun(MainThread, s)
    \/ RegisterCheck(MainThread)
    \/ RegisterInsert(MainThread)

SpecScopes == Init /\ [][NextScopes]_vars

----------------------------------------------------------------------------
(* Properties of the registry and of the life cycle *)

\* thread t takes a step
Steps(t) == pc'[t] # pc[t] \/ call'[t] # call[t] \/ exc'[t] # exc[t] \/ ret'[t] # ret[t]

\* C1: a constructor that reaches the membership test of build() while its
\* full name is registered (to another instance: its own object is not yet
\* known to anyone) ends with ValueError, and the registry is left as it
\* was, the name still mapped to the instance registered before.
C1_DuplicateNameRejected ==
    [][\A t \in Threads :
          ( /\ pc[t] = "L135"
            /\ status[self[t]] = "constructing"
            /\ full_name[self[t]] \in DOMAIN INSTANCES
            /\ Steps(t) )
          => /\ pc'[t] = "idle"
             /\ exc'[t] = "ValueError"
             /\ INSTANCES' = INSTANCES
             /\ INSTANCES'[full_name[self[t]]] # self[t]]_vars

C1_Witness ==
    \E a \in attempts :
        /\ a[3] = "ValueError"
        /\ status[a[2]] = "dropped"
        /\ exc[MainThread] = "ValueError"
        /\ self[MainThread] = a[2]
        /\ a[1] \in DOMAIN INSTANCES
        /\ INSTANCES[a[1]] # a[2]

\* C2: when threads build distinct widgets under one full name, whatever
\* the interleaving, exactly one of the attempts on that name registers its
\* widget, every other attempt raises ValueError, and the registry maps the
\* name to the widget that won: no entry is lost or overwritten.
C2_OneWinnerPerName ==
    \A a \in attempts :
        LET won == {b \in attempts : b[1] = a[1] /\ b[3] = "registered"}
        IN  /\ Cardinality(won) = 1
            /\ a[1] \in DOMAIN INSTANCES
            /\ \A b \in won : INSTANCES[a[1]] = b[2]
            /\ a \notin won => a[3] = "ValueError" /\ \A b \in won : b[2] # a[2]

\* one thread is between the membership test and the insertion while another,
\* building a different widget of the same full name, is at the lock
C2_Witness ==
    \E t, u \in Threads :
        /\ pc[t] = "L138"
        /\ pc[u] = "L135"
        /\ LOCK = 0
        /\ self[t] # self[u]
        /\ full_name[self[t]] = full_name[self[u]]

\* C3: under one full name at most one instance has run _build.
C3_OneBuildPerName ==
    \A v, w \in Widgets :
        (nBuild[v] > 0 /\ nBuild[w] > 0 /\ full_name[v] = full_name[w]) => v = w

\* C4: build() on a built widget returns the widget: _build does not run
\* again, the registry is not touched and nothing is raised.
C4_BuildOnce ==
    [][\A t \in Threads, w \in Widgets :
          ( /\ pc[t] = "idle"
            /\ built[w]
            /\ call'[t] = [op |-> "build"]
            /\ self'[t] = w
            /\ Steps(t) )
          => /\ pc'[t] = "idle"
             /\ ret'[t] = "self"
             /\ exc'[t] = "none"
             /\ nBuild' = nBuild
             /\ built' = built
             /\ INSTANCES' = INSTANCES
             /\ LOCK' = LOCK]_vars

\* build() has returned a widget that is not the one registered under its
\* name: the call came after the build of the widget was rejected, and
\* returned it as it was
C4_Witness ==
    \E t \in Threads :
        LET w == self[t]
        IN  /\ pc[t] = "idle"
            /\ call[t] = [op |-> "build"]
            /\ ret[t] = "self"
            /\ nBuild[w] = 1
            /\ full_name[w] \in DOMAIN INSTANCES
            /\ INSTANCES[full_name[w]] # w

\* C5: every widget a caller holds whose built flag is True is the instance
\* the registry maps its full name to.
C5_BuiltIsRegistered ==
    \A w \in Widgets :
        (status[w] = "live" /\ built[w])
        => /\ full_name[w] \in DOMAIN INSTANCES
           /\ INSTANCES[full_name[w]] = w

\* the widget is the instance the registry holds under its full name
IsRegistered(w) ==
    full_name[w] \in DOMAIN INSTANCES /\ INSTANCES[full_name[w]] = w

\* C6: setup() and __call__ on a widget that is not built raise RuntimeError
\* and do not run _setup; on a widget whose build() has succeeded they run
\* _setup once and return its result.
C6_SetupNeedsBuild ==
    [][\A t \in Threads, w \in Widgets :
          ( /\ pc[t] = "idle"
            /\ call'[t].op \in {"setup", "__call__"}
            /\ self'[t] = w
            /\ Steps(t) )
          => /\ ~built[w] => /\ exc'[t] = "RuntimeError"
                             /\ ret'[t] = "none"
                             /\ nSetup' = nSetup
             /\ (built[w] /\ IsRegistered(w))
                    => /\ exc'[t] = "none"
                       /\ ret'[t] = "tensor"
                       /\ nSetup' = [nSetup EXCEPT ![w] = @ + 1]]_vars

\* setup() has just raised RuntimeError on a widget that was never built,
\* and _setup has run in another widget, built and registered
C6_Witness ==
    \E t \in Threads, v \in Widgets :
        /\ pc[t] = "idle"
        /\ call[t].op \in {"setup", "__call__"}
        /\ exc[t] = "RuntimeError"
        /\ status[self[t]] = "live"
        /\ ~built[self[t]]
        /\ nBuild[self[t]] = 0
        /\ nSetup[self[t]] = 0
        /\ built[v] /\ IsRegistered(v) /\ nSetup[v] = 1

\* a name the constructor is to reject: a value of another type than str,
\* the empty string, or a string with a space in it
Malformed(n) ==
    \/ n.tag = "int"
    \/ /\ n.tag = "str"
       /\ \/ n.chars = <<>>
          \/ \E i \in 1 .. Len(n.chars) : n.chars[i] = " "

\* C7: a constructor called with a malformed name ends with ValueError, and
\* the widget is not built.
C7_MalformedNameRejected ==
    \A t \in Threads :
        (pc[t] = "idle" /\ call[t].op = "__init__" /\ Malformed(call[t].name))
        => /\ exc[t] = "ValueError"
           /\ ~built[self[t]]

----------------------------------------------------------------------------
(* Properties of the constructors of Conv2D, Pool2D and GroupConv2D *)

\* q is the ceiling of a / b: the least integer with a <= q * b
IsCeiling(q, a, b) == (q - 1) * b < a /\ a <= q * b

\* C8: the stored output height and width are ceil(input / stride) with
\* padding "SAME" and ceil((input - filter + 1) / stride) otherwise, each
\* from its own dimension, and flat_size is their product with the output
\* channels (Conv2D, GroupConv2D) or the input channels (Pool2D).
C8_OutputSizes ==
    \A w \in Widgets :
        geom[w].cls \in {"Conv2D", "Pool2D", "GroupConv2D"} =>
            LET g == geom[w]
            IN  /\ g.padding = "SAME" =>
                       /\ IsCeiling(g.output_height, g.input_height, g.stride_height)
                       /\ IsCeiling(g.output_width, g.input_width, g.stride_width)
                /\ g.padding # "SAME" =>
                       /\ IsCeiling(g.output_height,
                                    g.input_height - g.filter_height + 1, g.stride_height)
                       /\ IsCeiling(g.output_width,
                                    g.input_width - g.filter_width + 1, g.stride_width)
                /\ g.cls \in {"Conv2D", "GroupConv2D"} =>
                       g.flat_size = g.output_height * g.output_width * g.output_channels
                /\ g.cls = "Pool2D" =>
                       g.flat_size = g.output_height * g.output_width * g.input_channels

\* a registered widget whose height is divided inexactly and whose width
\* is not divided at all
C8_Witness ==
    \E w \in Widgets :
        /\ geom[w].cls \in {"Conv2D", "Pool2D", "GroupConv2D"}
        /\ IsRegistered(w)
        /\ geom[w].padding = "VALID"
        /\ geom[w].stride_height = 2
        /\ geom[w].stride_width = 1
        /\ (geom[w].input_height - geom[w].filter_height + 1) % 2 = 1
        /\ geom[w].output_height # geom[w].output_width
        /\ geom[w].flat_size > 1

\* C9: no Conv2D, Pool2D or GroupConv2D with a padding mode other than
\* "SAME" and "VALID" is ever built or registered.
C9_UnknownPaddingRejected ==
    \A w \in Widgets :
        (geom[w].cls \in {"Conv2D", "Pool2D", "GroupConv2D"} /\ (built[w] \/ IsRegistered(w)))
        => geom[w].padding \in {"SAME", "VALID"}

\* p is "max" or "avg" in some letter case
KnownIgnoringCase(p) ==
    /\ Len(p) = 3
    /\ \/ p[1] \in {"m", "M"} /\ p[2] \in {"a", "A"} /\ p[3] \in {"x", "X"}
       \/ p[1] \in {"a", "A"} /\ p[2] \in {"v", "V"} /\ p[3] \in {"g", "G"}

\* C10: Pool2D(...) with a pooling mode that is not known ends with
\* ValueError, the widget neither built nor registered; a known mode is
\* accepted in any letter case: the widget is built with the mode in lower
\* case (or, when input_size cannot be subscripted, that is the error).
C10_PoolTypeChecked ==
    \A t \in Threads :
        (pc[t] = "idle" /\ call[t].op = "__init__" /\ call[t].cls = "Pool2D")
        => LET w == self[t]
               p == call[t].pool_type
           IN  /\ ~KnownIgnoringCase(p) =>
                      /\ exc[t] = "ValueError"
                      /\ ~built[w]
                      /\ nBuild[w] = 0
                      /\ \A k \in DOMAIN INSTANCES : INSTANCES[k] # w
               /\ (KnownIgnoringCase(p) /\ SubscriptError(call[t].input_size) = "none") =>
                      /\ built[w]
                      /\ geom[w].pool_type \in {<<"m", "a", "x">>, <<"a", "v", "g">>}
                      /\ KnownIgnoringCase(geom[w].pool_type)
               /\ (KnownIgnoringCase(p) /\ SubscriptError(call[t].input_size) # "none") =>
                      exc[t] \in {"TypeError", "IndexError"}

\* a Pool2D constructor has just rejected the mode "min"
C10_Witness ==
    \E t \in Threads :
        /\ pc[t] = "idle"
        /\ call[t].op = "__init__"
        /\ call[t].cls = "Pool2D"
        /\ call[t].pool_type = <<"m", "i", "n">>
        /\ exc[t] = "ValueError"
        /\ status[self[t]] = "dropped"
        /\ ~built[self[t]]

\* C11: Pool2D(...) with a pooling type its documentation lists, "max" or
\* "mean", and an input_size it can subscript, is accepted: the constructor
\* raises nothing, the widget is built, and _setup returns a pooled tensor
\* for the stored type.
C11_DocumentedPoolTypesAccepted ==
    \A t \in Threads :
        ( /\ pc[t] = "idle"
          /\ call[t].op = "__init__"
          /\ call[t].cls = "Pool2D"
          /\ call[t].pool_type \in DocumentedPoolTypes
          /\ SubscriptError(call[t].input_size) = "none" )
        => /\ exc[t] = "none"
           /\ built[self[t]]
           /\ Pool2DSetup(geom[self[t]].pool_type) \in {"max_pool", "avg_pool"}

\* the shape argument of a recorded constructor call
ShapeArg(c) == IF c.cls = "Conv2DTrans" THEN c.output_size ELSE c.input_size

\* C12: a constructor of Conv2D, GroupConv2D, Pool2D or Conv2DTrans called
\* with a shape argument that is not a tuple or list of exactly 3 elements
\* ends with ValueError.
C12_BadShapeRejected ==
    \A t \in Threads :
        ( /\ pc[t] = "idle"
          /\ call[t].op = "__init__"
          /\ call[t].cls \in {"Conv2D", "GroupConv2D", "Pool2D", "Conv2DTrans"}
          /\ ~( /\ ShapeArg(call[t]).tag \in {"tuple", "list"}
                /\ Len(ShapeArg(call[t]).elems) = 3 ) )
        => exc[t] = "ValueError"

\* C13: a constructor that raises a validation ValueError (bad name, bad
\* shape argument, bad pooling mode: the errors raised before build() is
\* entered) leaves the registry and the variables of the graph as they
\* were; the widget has created no parameter, has not run _build and is not
\* built or registered.
C13_ValidationFailsImmediately ==
    [][\A t \in Threads :
          ( /\ pc[t] = "idle"
            /\ Steps(t)
            /\ call'[t].op = "__init__"
            /\ pc'[t] = "idle"
            /\ exc'[t] = "ValueError" )
          => LET w == self'[t]
             IN  /\ INSTANCES' = INSTANCES
                 /\ \A k \in DOMAIN INSTANCES' : INSTANCES'[k] # w
                 /\ variables' = variables
                 /\ created'[w] = {}
                 /\ nBuild' = nBuild
                 /\ nBuild'[w] = 0
                 /\ ~built'[w]]_vars

\* Pool2D has just rejected the pooling mode "min" while another widget is
\* registered and has its parameters
C13_Witness ==
    \E t \in Threads :
        /\ pc[t] = "idle"
        /\ call[t].op = "__init__"
        /\ call[t].cls = "Pool2D"
        /\ call[t].pool_type = <<"m", "i", "n">>
        /\ exc[t] = "ValueError"
        /\ status[self[t]] = "dropped"
        /\ ~built[self[t]]
        /\ DOMAIN INSTANCES # {}
        /\ DOMAIN variables # {}

----------------------------------------------------------------------------
(* Properties of the parameters *)

C15_StrictSetParameters ==
    [][\A t \in Threads, w \in Widgets :
          ( /\ pc[t] = "idle"
            /\ Steps(t)
            /\ call'[t].op = "set_parameters"
            /\ call'[t].strict
            /\ self'[t] = w
            /\ built[w] )
          => LET d == call'[t].param_dict
                 names == { d[i][1] : i \in DOMAIN d }
             IN  IF \E n \in names : n \notin TrainableVariables(w)
                 THEN exc'[t] = "ValueError"
                 ELSE /\ exc'[t] = "none"
                      /\ DOMAIN variables' = DOMAIN variables
                      /\ \A i \in DOMAIN d : variables'[d[i][1]] = d[i][2]
                      /\ \A k \in DOMAIN variables \ names :
                             variables'[k] = variables[k]]_vars

\* a strict set_parameters has just raised ValueError for the second of two
\* names, the first one being a trainable variable of the widget
C15_Witness ==
    \E t \in Threads :
        /\ pc[t] = "idle"
        /\ call[t].op = "set_parameters"
        /\ call[t].strict
        /\ exc[t] = "ValueError"
        /\ built[self[t]]
        /\ Len(call[t].param_dict) = 2
        /\ call[t].param_dict[1][1] \in TrainableVariables(self[t])
        /\ call[t].param_dict[2][1] \notin TrainableVariables(self[t])

\* C16: set_parameters(param_dict, strict=False) on a built widget raises
\* nothing: the entries whose names are not trainable variables of the
\* widget are skipped, every other entry is assigned to its variable, and
\* no other variable changes.
C16_LenientSetParameters ==
    [][\A t \in Threads, w \in Widgets :
          ( /\ pc[t] = "idle"
            /\ Steps(t)
            /\ call'[t].op = "set_parameters"
            /\ ~call'[t].strict
            /\ self'[t] = w
            /\ built[w] )
          => LET d == call'[t].param_dict
                 used == { i \in DOMAIN d : d[i][1] \in TrainableVariables(w) }
             IN  /\ exc'[t] = "none"
                 /\ DOMAIN variables' = DOMAIN variables
                 /\ \A i \in used : variables'[d[i][1]] = d[i][2]
                 /\ \A k \in DOMAIN variables \ { d[i][1] : i \in used } :
                        variables'[k] = variables[k]]_vars

----------------------------------------------------------------------------
(* Properties of the recurrent cells *)

\* x is a tensor of zeros with the given batch size and width
IsZeros(x, batch, width) ==
    x.tag = "tensor" /\ x.op = "zeros" /\ x.batch = batch /\ x.width = width

\* C17: GRUCell.setup_recursive ends with ValueError exactly when
\* init_state and init_input are both None; with exactly one of them given
\* it raises nothing, the scan starts from the given tensor and, in place of
\* the missing one, zeros with the batch size of the given one (state_size
\* wide for the state, input_size wide for the input), and it returns
\* max_len states and max_len outputs.
C17_GRURecursiveInit ==
    \A t \in Threads :
        ( /\ pc[t] = "idle"
          /\ call[t].op = "setup_recursive"
          /\ geom[self[t]].cls = "GRUCell" )
        => LET c == call[t]
               g == geom[self[t]]
               o == out[t]
           IN  /\ (exc[t] = "ValueError") <=> (c.init_state = None /\ c.init_input = None)
               /\ (c.init_state = None /\ c.init_input # None) =>
                      /\ exc[t] = "none"
                      /\ IsZeros(o.init.elems[1], c.init_input.batch, g.state_size)
                      /\ o.init.elems[2] = c.init_input
                      /\ o.steps[1].acc = o.init
                      /\ Len(o.states) = c.max_len
                      /\ Len(o.outputs) = c.max_len
               /\ (c.init_state # None /\ c.init_input = None) =>
                      /\ exc[t] = "none"
                      /\ o.init.elems[1] = c.init_state
                      /\ IsZeros(o.init.elems[2], c.init_state.batch, g.input_size)
                      /\ o.steps[1].acc = o.init
                      /\ Len(o.states) = c.max_len
                      /\ Len(o.outputs) = c.max_len

\* a GRU cell whose two sizes differ has been unrolled from an input alone,
\* of the largest batch, over the largest length
C17_Witness ==
    \E t \in Threads :
        /\ pc[t] = "idle"
        /\ call[t].op = "setup_recursive"
        /\ geom[self[t]].cls = "GRUCell"
        /\ geom[self[t]].state_size # geom[self[t]].input_size
        /\ call[t].init_state = None
        /\ call[t].init_input # None
        /\ call[t].init_input.batch = MaxBatch
        /\ exc[t] = "none"
        /\ out[t].init.elems[1].op = "zeros"
        /\ out[t].init.elems[1].batch = MaxBatch
        /\ Len(out[t].states) = MaxLen

\* C18: LSTMCell.setup_recursive ends with ValueError exactly when
\* init_state and init_input are both None; with init_state given and
\* init_input None it raises nothing and starts from a zero input of the
\* batch size of the state; with init_input given, a missing init_state and
\* a missing init_cell_state are zeros of the batch size of the input.
C18_LSTMRecursiveInit ==
    \A t \in Threads :
        ( /\ pc[t] = "idle"
          /\ call[t].op = "setup_recursive"
          /\ geom[self[t]].cls = "LSTMCell" )
        => LET c == call[t]
               g == geom[self[t]]
               o == out[t]
           IN  /\ (exc[t] = "ValueError") <=> (c.init_state = None /\ c.init_input = None)
               /\ (c.init_state # None /\ c.init_input = None) =>
                      /\ exc[t] = "none"
                      /\ o.init.elems[2] = c.init_state
                      /\ IsZeros(o.init.elems[3], c.init_state.batch, g.input_size)
               /\ c.init_input # None =>
                      /\ exc[t] = "none"
                      /\ o.init.elems[3] = c.init_input
                      /\ IF c.init_state = None
                         THEN IsZeros(o.init.elems[2], c.init_input.batch, g.state_size)
                         ELSE o.init.elems[2] = c.init_state
                      /\ IF c.init_cell_state = None
                         THEN IsZeros(o.init.elems[1], c.init_input.batch, g.state_size)
                         ELSE o.init.elems[1] = c.init_cell_state

\* C20: GRUCell.setup_sequence on a built cell raises nothing and gives one
\* state per element of the sequence, in order: state k is the cell set up
\* on element k (after input_widgets) and on state k - 1, the first one on
\* init_state, or on zeros when none is given; with output_widgets it gives
\* as well one output per step, made from the state of the step, and what
\* every step is given as previous state is a single tensor.
C20_GRUSequenceOrder ==
    \A t \in Threads :
        ( /\ pc[t] = "idle"
          /\ call[t].op = "setup_sequence"
          /\ built[self[t]] )
        => LET c == call[t]
               g == geom[self[t]]
               o == out[t]
               n == c.seq.length
               first == IF c.init_state = None
                        THEN Zeros(c.seq.batch, g.state_size, "init_state")
                        ELSE c.init_state
               elem(k) == [tag |-> "tensor", op |-> "elem", index |-> k,
                           batch |-> c.seq.batch, width |-> c.seq.width]
           IN  /\ exc[t] = "none"
               /\ Len(o.states) = n
               /\ \A k \in 1 .. n :
                      /\ o.states[k].op = "GRUCell"
                      /\ o.states[k].x = OperationsSetup(elem(k), c.input_widgets)
                      /\ o.states[k].h_ = IF k = 1 THEN first ELSE o.states[k - 1]
                      /\ o.steps[k].acc.tag = "tensor"
               /\ c.output_widgets # None =>
                      /\ Len(o.outputs) = n
                      /\ \A k \in 1 .. n :
                             o.outputs[k] = OperationsSetup(o.states[k], c.output_widgets)

----------------------------------------------------------------------------
(* Properties of the names *)

\* scope s without the "/" at its end, if it has one
WithoutSlash(s) ==
    IF s # << >> /\ s[Len(s)] = "/" THEN SubSeq(s, 1, Len(s) - 1) ELSE s

\* the names of a built widget are as the claim says: full_name is the
\* name in the empty scope, otherwise scope and name with exactly one "/"
\* between them, and prefix is full_name followed by "/"
NamesJoined(w) ==
    /\ full_name[w] =
           IF scope[w] = << >>
           THEN name[w]
           ELSE Str(WithoutSlash(scope[w]) \o <<"/">> \o name[w].chars)
    /\ prefix[w] = Str(full_name[w].chars \o <<"/">>)
    /\ prefix[w].chars[Len(prefix[w].chars)] = "/"
    /\ scope[w] # << >> =>
           \A i \in 1 .. Len(full_name[w].chars) - 1 :
               ~(full_name[w].chars[i] = "/" /\ full_name[w].chars[i + 1] = "/")

\* C19, as claimed: the names of every built widget are joined as above,
\* and two built widgets of the same name whose enclosing scopes are
\* different have different full names, neither of them rejected by the
\* registry.
C19_ScopedNames ==
    /\ \A w \in Widgets : built[w] => NamesJoined(w)
    /\ \A v, w \in Widgets :
           (v # w /\ built[v] /\ built[w] /\ name[v] = name[w] /\ scope[v] # scope[w])
           => /\ full_name[v] # full_name[w]
              /\ <<full_name[w], w, "ValueError">> \notin attempts

\* C19, amended: the names of every built widget are joined as above, and
\* two built widgets of the same name whose enclosing scopes differ by more
\* than a "/" at the end have different full names, so that neither is the
\* instance the registry holds under the full name of the other.
C19_ScopedNamesUpToSlash ==
    /\ \A w \in Widgets : built[w] => NamesJoined(w)
    /\ \A v, w \in Widgets :
           ( /\ v # w /\ built[v] /\ built[w] /\ name[v] = name[w]
             /\ WithoutSlash(scope[v]) # WithoutSlash(scope[w]) )
           => /\ full_name[v] # full_name[w]
              /\ full_name[w] \in DOMAIN INSTANCES => INSTANCES[full_name[w]] # v

\* two widgets of one name are registered, one built in the empty scope and
\* one in a scope that ends with "/"
C19_Witness ==
    \E v, w \in Widgets :
        /\ name[v] = name[w]
        /\ scope[v] = << >>
        /\ scope[w] = <<"s", "/">>
        /\ full_name[w] = Str(<<"s", "/">> \o name[w].chars)
        /\ IsRegistered(v)
        /\ IsRegistered(w)
        /\ status[v] = "live"
        /\ status[w] = "live"

\* C21: every Conv2D, Pool2D or GroupConv2D that its constructor accepted
\* with positive integer input sizes, filter sizes and strides, in either
\* padding mode, stores an output_height, an output_width and a flat_size
\* that are at least 1.
C21_PositiveOutputSizes ==
    \A w \in Widgets :
        ( /\ geom[w].cls \in {"Conv2D", "Pool2D", "GroupConv2D"}
          /\ status[w] = "live"
          /\ IsRegistered(w)
          /\ geom[w].padding \in {"SAME", "VALID"} )
        => /\ geom[w].output_height >= 1
           /\ geom[w].output_width >= 1
           /\ geom[w].flat_size >= 1

\* C22: setup() of a Conv2DTrans given an input of the declared
\* input_height and input_width returns an output whose height and width
\* are the declared output_height and output_width.
C22_TransRoundTrip ==
    \A t \in Threads, w \in Widgets :
        ( /\ geom[w].cls = "Conv2DTrans"
          /\ self[t] = w
          /\ call[t].op = "setup"
          /\ ret[t] = "tensor"
          /\ call[t].x.shape[2] = geom[w].input_height
          /\ call[t].x.shape[3] = geom[w].input_width )
        => /\ out[t].shape[2] = geom[w].output_height
           /\ out[t].shape[3] = geom[w].output_width

\* C23: in every GroupConv2D its constructor accepted, num_groups times the
\* per-group input-channel depth of the weight is input_channels, and the
\* output channels split into num_groups equal parts.
C23_GroupPartitionExact ==
    \A w \in Widgets :
        ( /\ geom[w].cls = "GroupConv2D"
          /\ status[w] = "live"
          /\ IsRegistered(w) )
        => /\ geom[w].num_groups * GroupWeightShape(geom[w])[3] = geom[w].input_channels
           /\ Len(SplitSizes(geom[w].output_channels, geom[w].num_groups)) = geom[w].num_groups

\* each key of the registry is the full name of the instance it maps to,
\* and that instance is built
KeysAreFullNames ==
    \A k \in DOMAIN INSTANCES :
        full_name[INSTANCES[k]] = k /\ built[INSTANCES[k]]

\* a step removes no entry of the registry and replaces none
EntriesStay ==
    \A k \in DOMAIN INSTANCES :
        k \in DOMAIN INSTANCES' /\ INSTANCES'[k] = INSTANCES[k]

\* C24: in every reachable state each key of Widget.INSTANCES is the full
\* name of the instance it maps to and that instance is built, and a name
\* that maps to an instance maps to the same instance in every later state.
C24_RegistryPermanent == []KeysAreFullNames /\ [][EntriesStay]_vars

====
